---- MODULE Spec2Model ----
(***************************************************************************)
(* Model of the three scripts of the repository:                           *)
(*   maximum_number_list.py        the linear maximum scan                 *)
(*   rainfall_analysis.py          the rainfall pipeline, script "A"       *)
(*   rainfall_analysis_model_b.py  the rainfall pipeline, script "B"       *)
(*                                                                         *)
(* Percentages are kept as exact fractions (a pixel count over the crop    *)
(* size), and a latitude or longitude as a fraction <<n, d>>, d > 0: the   *)
(* model is in exact arithmetic, the last-place rounding of the scripts'   *)
(* doubles aside, except where int() turns it into a whole pixel: a        *)
(* product that is exactly a whole number n and is computed just below it  *)
(* gives n - 1.  The conversions take the sign of that rounding error as   *)
(* an argument (-1 just below, 0 exact, 1 just above).  In the pipeline    *)
(* runs it is NoRounding: on the shapes of ImageShapes, with the regions   *)
(* the scripts declare, the double arithmetic gives the indices and the    *)
(* threshold decisions of the exact fractions.                             *)
(***************************************************************************)
EXTENDS Integers, Sequences, FiniteSets, TLC

VARIABLES
    my_list,        \* maximum_number_list.py: the input list
    max_value,      \* maximum_number_list.py: the running maximum
    pos,            \* index of the next element the for loop visits
    mpc,            \* "loop" | "print" | "done"
    output,         \* what the final print wrote (<<>> before it)
    script,         \* "A" rainfall_analysis.py | "B" rainfall_analysis_model_b.py
    pc,             \* position of the pipeline run
    shape,          \* <<rows, columns>> of the image file's pixel array
    img,            \* the image file: [mode, tile], see Gray
    gray,           \* brightness array after load, as a tile; <<>> before
    classes,        \* A: cloud_class; B: the two masks of cloud_stats
    k,              \* number of regions the region loop has handled
    results,        \* the results list
    report,         \* rows of the regional report, in printed order
    printed,        \* the regional report has been printed
    saved,          \* the output image has been written
    arg,            \* input of a run of the mapper or the classifier alone
    mid,            \* intermediate value of such a run
    ret             \* its result

mvars == <<my_list, max_value, pos, mpc, output>>

pvars == <<script, pc, shape, img, gray, classes, k, results, report, printed, saved>>

fvars == <<arg, mid, ret>>

vars == <<my_list, max_value, pos, mpc, output,
          script, pc, shape, img, gray, classes, k, results, report, printed, saved,
          arg, mid, ret>>

-----------------------------------------------------------------------------
(* Bounds of the model *)

MaxLen == 3

MaxAbs == 3

MaxBrightness == 255

\* latitudes and longitudes of the round trip are multiples of 1 / GeoDen
GeoDen == 2

\* the largest number of pixels of a crop whose label is followed as the
\* crop gets brighter
MaxPixels == 20

Max2(a, b) == IF a >= b THEN a ELSE b

Min2(a, b) == IF a <= b THEN a ELSE b

-----------------------------------------------------------------------------
(* The variables of a script that is not the one running *)

MaxIdle ==
    /\ my_list = <<>>
    /\ max_value = 0
    /\ pos = 0
    /\ mpc = "idle"
    /\ output = <<>>

PipelineIdle ==
    /\ script = "none"
    /\ pc = "idle"
    /\ shape = <<0, 0>>
    /\ img = <<>>
    /\ gray = <<>>
    /\ classes = <<>>
    /\ k = 0
    /\ results = <<>>
    /\ report = <<>>
    /\ printed = FALSE
    /\ saved = FALSE

FunctionIdle ==
    /\ arg = <<>>
    /\ mid = <<>>
    /\ ret = <<>>

-----------------------------------------------------------------------------
(* maximum_number_list.py *)

Elements == (0 - MaxAbs)..MaxAbs

InputLists == UNION {[1..n -> Elements] : n \in 1..MaxLen}

InitialMaxZero(l) == 0

InitialMax(l) == l[1]

MaxInit ==
    /\ my_list \in InputLists
    /\ max_value = InitialMax(my_list)
    /\ pos = 1
    /\ mpc = "loop"
    /\ output = <<>>
    /\ PipelineIdle
    /\ FunctionIdle

LoopStep ==
    /\ mpc = "loop"
    /\ pos <= Len(my_list)
    /\ max_value' = IF my_list[pos] > max_value THEN my_list[pos] ELSE max_value
    /\ pos' = pos + 1
    /\ UNCHANGED <<my_list, mpc, output>>
    /\ UNCHANGED <<pvars, fvars>>

LoopExit ==
    /\ mpc = "loop"
    /\ pos > Len(my_list)
    /\ mpc' = "print"
    /\ UNCHANGED <<my_list, max_value, pos, output>>
    /\ UNCHANGED <<pvars, fvars>>

PrintMax ==
    /\ mpc = "print"
    /\ output' = <<max_value>>
    /\ mpc' = "done"
    /\ UNCHANGED <<my_list, max_value, pos>>
    /\ UNCHANGED <<pvars, fvars>>

MaxNext == LoopStep \/ LoopExit \/ PrintMax

SpecMax == MaxInit /\ [][MaxNext]_vars

-----------------------------------------------------------------------------
(* The rainfall pipeline: constants of both scripts *)

header_height == 80

lat_min == -5

lat_max == 45

lon_min == 50

lon_max == 105

DENSE_CLOUD == 200

MEDIUM_CLOUD == 160

LIGHT_CLOUD == 120

threshold_high == 180

threshold_medium == 140

likelihood_order(l) ==
    CASE l = "HIGH" -> 0
      [] l = "MODERATE" -> 1
      [] l = "LOW" -> 2
      [] l = "UNLIKELY" -> 3

regionsA ==
    << [region |-> "North India", lat |-> <<30, 40>>, lon |-> <<70, 82>>],
       [region |-> "Northwest India", lat |-> <<25, 32>>, lon |-> <<70, 78>>],
       [region |-> "Northeast India", lat |-> <<22, 30>>, lon |-> <<88, 98>>],
       [region |-> "Central India", lat |-> <<18, 26>>, lon |-> <<76, 85>>],
       [region |-> "Western India", lat |-> <<15, 25>>, lon |-> <<68, 76>>],
       [region |-> "South India", lat |-> <<8, 18>>, lon |-> <<74, 82>>],
       [region |-> "Eastern India", lat |-> <<18, 25>>, lon |-> <<82, 90>>],
       [region |-> "Arabian Sea", lat |-> <<5, 20>>, lon |-> <<55, 72>>],
       [region |-> "Bay of Bengal", lat |-> <<5, 20>>, lon |-> <<80, 95>>],
       [region |-> "Pakistan/Afghanistan", lat |-> <<25, 38>>, lon |-> <<60, 72>>] >>

regionsB ==
    << [region |-> "Northern India", lat |-> <<28, 40>>, lon |-> <<70, 95>>],
       [region |-> "Arabian Sea", lat |-> <<5, 15>>, lon |-> <<55, 72>>],
       [region |-> "Bay of Bengal", lat |-> <<10, 22>>, lon |-> <<85, 100>>],
       [region |-> "Southern Indian Ocean", lat |-> <<-5, 5>>, lon |-> <<70, 95>>],
       [region |-> "Central India", lat |-> <<18, 26>>, lon |-> <<74, 84>>],
       [region |-> "Western Rajasthan", lat |-> <<24, 30>>, lon |-> <<68, 76>>] >>

regions == IF script = "A" THEN regionsA ELSE regionsB

-----------------------------------------------------------------------------
(* Arithmetic.  A brightness is held times Channels, so that the mean of   *)
(* three channels is a whole number.                                       *)

Channels == 3

\* truncation of n / d towards zero, for d > 0
Trunc(n, d) == IF n >= 0 THEN n \div d ELSE 0 - ((0 - n) \div d)

Rounding == {-1, 0, 1}

NoRounding == <<0, 0>>

\* int() of the double computed for n / d (d > 0) with rounding error sign e
IntOf(n, d, e) ==
    LET t == Trunc(n, d)
    IN  IF n % d # 0 THEN t
        ELSE IF e < 0 /\ t > 0 THEN t - 1
        ELSE IF e > 0 /\ t < 0 THEN t + 1
        ELSE t

Count(S) == Cardinality(S)

-----------------------------------------------------------------------------
(* Images.  An image file is four blocks of constant pixel value: the data *)
(* area (the rows from header_height on) is cut at half its height and the *)
(* columns at half the width; the header rows belong to the upper blocks.  *)

GrayPixels == {100, 140, 180, 200, 255}

RGBPixels == {<<90, 100, 110>>, <<140, 141, 140>>, <<181, 180, 180>>, <<250, 255, 251>>}

ImageShapes == {<<100, 100>>, <<84, 6>>, <<81, 100>>, <<50, 100>>}

Images ==
    [mode : {"L"}, tile : [1..4 -> GrayPixels]]
      \cup [mode : {"RGB"}, tile : [1..4 -> RGBPixels]]

TileCell(x, y) ==
    (IF 2 * (y - header_height) < shape[1] - header_height THEN 0 ELSE 2)
      + (IF 2 * x < shape[2] THEN 1 ELSE 2)

\* np.mean(img_array, axis=2) of a three-channel array, else the array itself
Grayscale(image) ==
    [c \in 1..4 |->
        IF image.mode = "RGB"
        THEN image.tile[c][1] + image.tile[c][2] + image.tile[c][3]
        ELSE Channels * image.tile[c]]

\* gray[y, x]
GrayAt(x, y) == gray[TileCell(x, y)]

-----------------------------------------------------------------------------
(* rainfall_analysis.py: analyze_satellite_image *)

\* data_region = gray[header_height:, :]; height, width = data_region.shape
height == Max2(0, shape[1] - header_height)

width == shape[2]

\* the header band left in: data_region = gray
data_region_with_header(x, y) == GrayAt(x, y)

\* data_region[y, x]
data_region(x, y) == GrayAt(x, y + header_height)

DenseMaskA(v) == v >= Channels * DENSE_CLOUD

MediumMaskNoUpper(v) == v >= Channels * MEDIUM_CLOUD

MediumMaskA(v) == v >= Channels * MEDIUM_CLOUD /\ v < Channels * DENSE_CLOUD

LightMaskA(v) == v >= Channels * LIGHT_CLOUD /\ v < Channels * MEDIUM_CLOUD

\* cloud_class of one pixel: zeros_like, then the three masked assignments in turn
cloud_class(v) ==
    LET c0 == 0
        c1 == IF DenseMaskA(v) THEN 3 ELSE c0
        c2 == IF MediumMaskA(v) THEN 2 ELSE c1
        c3 == IF LightMaskA(v) THEN 1 ELSE c2
    IN  c3

\* r: the rounding error signs of the two products, <<for x, for y>>
latlon_to_pixel(lat, lon, r) ==
    LET x == IntOf((lon - lon_min) * width, lon_max - lon_min, r[1])
        y == IntOf((lat_max - lat) * height, lat_max - lat_min, r[2])
    IN  <<Max2(0, Min2(x, width - 1)), Max2(0, Min2(y, height - 1))>>

\* the corners x1, y1, x2, y2 that analyze_region slices data_region with
CornersA(lat_range, lon_range, r1, r2) ==
    LET p1 == latlon_to_pixel(lat_range[2], lon_range[1], r1)
        p2 == latlon_to_pixel(lat_range[1], lon_range[2], r2)
    IN  <<p1[1], p1[2], p2[1], p2[2]>>

\* the index pairs <<x, y>> of arr[y1:y2, x1:x2], for corners inside the array
Slice(c) == (c[1]..(c[3] - 1)) \X (c[2]..(c[4] - 1))

\* percentages as numerators over the common denominator den
analyze_region(lat_range, lon_range) ==
    LET region_data == Slice(CornersA(lat_range, lon_range, NoRounding, NoRounding))
        total == Count(region_data)
    IN  IF total = 0
        THEN [high |-> 0, medium |-> 0, low |-> 0, den |-> 1]
        ELSE [high |-> 100 * Count({p \in region_data : DenseMaskA(data_region(p[1], p[2]))}),
              medium |-> 100 * Count({p \in region_data : MediumMaskA(data_region(p[1], p[2]))}),
              low |-> 100 * Count({p \in region_data : LightMaskA(data_region(p[1], p[2]))}),
              den |-> total]

\* the MODERATE test taken before the HIGH test
LikelihoodAModerateFirst(r) ==
    IF r.high > 15 * r.den \/ r.high + r.medium > 40 * r.den THEN "MODERATE"
    ELSE IF r.high > 30 * r.den THEN "HIGH"
    ELSE IF r.high + r.medium + r.low > 30 * r.den THEN "LOW"
    ELSE "UNLIKELY"

LikelihoodA(r) ==
    LET total_cloud == r.high + r.medium + r.low
    IN  IF r.high > 30 * r.den THEN "HIGH"
        ELSE IF r.high > 15 * r.den \/ r.high + r.medium > 40 * r.den THEN "MODERATE"
        ELSE IF total_cloud > 30 * r.den THEN "LOW"
        ELSE "UNLIKELY"

ResultA(reg) ==
    LET r == analyze_region(reg.lat, reg.lon)
    IN  [region |-> reg.region, high |-> r.high, medium |-> r.medium, low |-> r.low,
         den |-> r.den, likelihood |-> LikelihoodA(r)]

\* key=lambda x: (likelihood_order[x['likelihood']], -x['high'])
KeyLessA(a, b) ==
    \/ likelihood_order(a.likelihood) < likelihood_order(b.likelihood)
    \/ /\ likelihood_order(a.likelihood) = likelihood_order(b.likelihood)
       /\ a.high * b.den > b.high * a.den

\* key=lambda x: {...}[x['rain_likelihood']]
KeyLessB(a, b) == likelihood_order(a.likelihood) < likelihood_order(b.likelihood)

KeyLess(a, b) == IF script = "A" THEN KeyLessA(a, b) ELSE KeyLessB(a, b)

\* list.sort and sorted are stable: e goes after the elements not above it
Insert(acc, e) ==
    LET j == Count({n \in 1..Len(acc) : ~KeyLess(e, acc[n])})
    IN  SubSeq(acc, 1, j) \o <<e>> \o SubSeq(acc, j + 1, Len(acc))

RECURSIVE SortedPrefix(_, _)
SortedPrefix(seq, n) ==
    IF n = 0 THEN <<>> ELSE Insert(SortedPrefix(seq, n - 1), seq[n])

Sorted(seq) == SortedPrefix(seq, Len(seq))

-----------------------------------------------------------------------------
(* rainfall_analysis_model_b.py *)

define_geographic_bounds(img_shape) ==
    [header_height |-> header_height,
     lon_range |-> <<lon_min, lon_max>>,
     lat_range |-> <<lat_min, lat_max>>,
     pixels_per_degree_lon |-> <<img_shape[2], lon_max - lon_min>>,
     pixels_per_degree_lat |-> <<img_shape[1] - header_height, lat_max - lat_min>>]

\* The result is <<lat, lon>>, two fractions.  For positive pixels_per_degree
\* (a data area of at least one row and one column; the division raises at
\* zero).
pixel_to_coords(x, y, bounds) ==
    LET plon == bounds.pixels_per_degree_lon
        plat == bounds.pixels_per_degree_lat
        lon == <<bounds.lon_range[1] * plon[1] + x * plon[2], plon[1]>>
        lat == <<bounds.lat_range[2] * plat[1] - (y - bounds.header_height) * plat[2],
                 plat[1]>>
    IN  <<lat, lon>>

\* the header offset left out of y
coords_to_pixel_no_header(lat, lon, bounds, r) ==
    LET plon == bounds.pixels_per_degree_lon
        plat == bounds.pixels_per_degree_lat
        x == IntOf((lon[1] - bounds.lon_range[1] * lon[2]) * plon[1], lon[2] * plon[2], r[1])
        y == IntOf((bounds.lat_range[2] * lat[2] - lat[1]) * plat[1], lat[2] * plat[2], r[2])
    IN  <<x, y>>

\* lat and lon are fractions; the result is <<x, y>>, two integers; r: the
\* rounding error signs of the two values int() is given, <<for x, for y>>
coords_to_pixel(lat, lon, bounds, r) ==
    LET plon == bounds.pixels_per_degree_lon
        plat == bounds.pixels_per_degree_lat
        x == IntOf((lon[1] - bounds.lon_range[1] * lon[2]) * plon[1], lon[2] * plon[2], r[1])
        y == IntOf(bounds.header_height * lat[2] * plat[2]
                     + (bounds.lat_range[2] * lat[2] - lat[1]) * plat[1],
                   lat[2] * plat[2], r[2])
    IN  <<x, y>>

HighCloudMask(v, t_high) == v > Channels * t_high

MediumCloudMask(v, t_high, t_medium) == v > Channels * t_medium /\ v <= Channels * t_high

\* the masks of analyze_cloud_cover, per block of the image, and the two counts
\* over data_region.size (the percentages are nan when the data area is empty)
analyze_cloud_cover(bounds) ==
    LET data == Slice(<<0, bounds.header_height, shape[2], shape[1]>>)
    IN  [high_cloud_mask |-> [c \in 1..4 |-> HighCloudMask(gray[c], threshold_high)],
         medium_cloud_mask |->
             [c \in 1..4 |-> MediumCloudMask(gray[c], threshold_high, threshold_medium)],
         high_cloud_count |->
             Count({p \in data : HighCloudMask(GrayAt(p[1], p[2]), threshold_high)}),
         medium_cloud_count |->
             Count({p \in data :
                      MediumCloudMask(GrayAt(p[1], p[2]), threshold_high, threshold_medium)}),
         size |-> Count(data)]

\* y1 held at row 0 instead of at the first data row
CornersBNoHeader(lat_range, lon_range, bounds, r1, r2) ==
    LET p1 == coords_to_pixel(<<lat_range[2], 1>>, <<lon_range[1], 1>>, bounds, r1)
        p2 == coords_to_pixel(<<lat_range[1], 1>>, <<lon_range[2], 1>>, bounds, r2)
    IN  <<Max2(0, p1[1]), Max2(0, p1[2]),
          Min2(shape[2], p2[1]), Min2(shape[1], p2[2])>>

\* x1, y1, x2, y2 after the max/min of identify_rain_regions
CornersB(lat_range, lon_range, bounds, r1, r2) ==
    LET p1 == coords_to_pixel(<<lat_range[2], 1>>, <<lon_range[1], 1>>, bounds, r1)
        p2 == coords_to_pixel(<<lat_range[1], 1>>, <<lon_range[2], 1>>, bounds, r2)
    IN  <<Max2(0, p1[1]), Max2(bounds.header_height, p1[2]),
          Min2(shape[2], p2[1]), Min2(shape[1], p2[2])>>

\* if x2 > x1 and y2 > y1
NonEmptyB(c) == c[3] > c[1] /\ c[4] > c[2]

DenseB(v) == v > Channels * 180

MediumBNoUpper(v) == v > Channels * 140

MediumB(v) == v > Channels * 140 /\ v <= Channels * 180

LikelihoodB(high, medium, den) ==
    IF high > 30 * den THEN "HIGH"
    ELSE IF high > 15 * den \/ high + medium > 40 * den THEN "MODERATE"
    ELSE IF high > 5 * den \/ medium > 20 * den THEN "LOW"
    ELSE "UNLIKELY"

\* the record appended for a region whose crop is not empty
ResultB(reg, c) ==
    LET region_pixels == Slice(c)
        size == Count(region_pixels)
        high_cloud_pct == 100 * Count({p \in region_pixels : DenseB(GrayAt(p[1], p[2]))})
        medium_cloud_pct == 100 * Count({p \in region_pixels : MediumB(GrayAt(p[1], p[2]))})
    IN  [region |-> reg.region, high |-> high_cloud_pct, medium |-> medium_cloud_pct,
         den |-> size, likelihood |-> LikelihoodB(high_cloud_pct, medium_cloud_pct, size),
         bounds |-> c]

\* one pass of the loop body of identify_rain_regions
AppendB(res, reg, bounds) ==
    LET c == CornersB(reg.lat, reg.lon, bounds, NoRounding, NoRounding)
    IN  IF NonEmptyB(c) THEN Append(res, ResultB(reg, c)) ELSE res

-----------------------------------------------------------------------------
(* The pipeline run of either script *)

Init ==
    /\ script \in {"A", "B"}
    /\ pc = "start"
    /\ shape \in ImageShapes
    /\ img \in Images
    /\ gray = <<>>
    /\ classes = <<>>
    /\ k = 0
    /\ results = <<>>
    /\ report = <<>>
    /\ printed = FALSE
    /\ saved = FALSE
    /\ MaxIdle
    /\ FunctionIdle

\* Image.open succeeds; np.array and the grayscale reduction
Load ==
    /\ pc = "start"
    /\ gray' = Grayscale(img)
    /\ pc' = "loaded"
    /\ UNCHANGED <<script, shape, img, classes, k, results, report, printed, saved>>
    /\ UNCHANGED <<mvars, fvars>>

\* the exception caught and the run carried on
LoadFailsSwallowed ==
    /\ pc = "start"
    /\ pc' = "visualize"
    /\ UNCHANGED <<script, shape, img, gray, classes, k, results, report, printed, saved>>
    /\ UNCHANGED <<mvars, fvars>>

\* Image.open raises: nothing catches it, in the function or in its caller
LoadFails ==
    /\ pc = "start"
    /\ pc' = "error"
    /\ UNCHANGED <<script, shape, img, gray, classes, k, results, report, printed, saved>>
    /\ UNCHANGED <<mvars, fvars>>

\* A: the classification map; B: define_geographic_bounds, analyze_cloud_cover
Classify ==
    /\ pc = "loaded"
    /\ classes' = IF script = "A"
                  THEN [c \in 1..4 |-> cloud_class(gray[c])]
                  ELSE analyze_cloud_cover(define_geographic_bounds(shape))
    /\ pc' = "regions"
    /\ UNCHANGED <<script, shape, img, gray, k, results, report, printed, saved>>
    /\ UNCHANGED <<mvars, fvars>>

\* one pass of the loop over regions.items()
AnalyzeNext ==
    /\ pc = "regions"
    /\ k < Len(regions)
    /\ results' = IF script = "A"
                  THEN Append(results, ResultA(regions[k + 1]))
                  ELSE AppendB(results, regions[k + 1], define_geographic_bounds(shape))
    /\ k' = k + 1
    /\ UNCHANGED <<script, pc, shape, img, gray, classes, report, printed, saved>>
    /\ UNCHANGED <<mvars, fvars>>

\* A: results.sort(...) and the table; B: print_report's sorted(...) and blocks
PrintReport ==
    /\ pc = "regions"
    /\ k = Len(regions)
    /\ results' = IF script = "A" THEN Sorted(results) ELSE results
    /\ report' = Sorted(results)
    /\ printed' = TRUE
    /\ pc' = "visualize"
    /\ UNCHANGED <<script, shape, img, gray, classes, k, saved>>
    /\ UNCHANGED <<mvars, fvars>>

\* plt.savefig writes the output image; then the function returns
SaveFigure ==
    /\ pc = "visualize"
    /\ saved' = TRUE
    /\ pc' = "done"
    /\ UNCHANGED <<script, shape, img, gray, classes, k, results, report, printed>>
    /\ UNCHANGED <<mvars, fvars>>

Next == Load \/ LoadFails \/ Classify \/ AnalyzeNext \/ PrintReport \/ SaveFigure

Spec == Init /\ [][Next]_vars

-----------------------------------------------------------------------------
(* The classification of one pixel, by either script.  arg is the pixel's  *)
(* brightness times Channels; A builds cloud_class by zeros_like and three *)
(* masked assignments, B builds the two masks of analyze_cloud_cover.      *)

Brightness == 0..(Channels * MaxBrightness)

ClassifyInit ==
    /\ script \in {"A", "B"}
    /\ pc = "pixel"
    /\ arg \in Brightness
    /\ mid = 0
    /\ ret = <<>>
    /\ shape = <<0, 0>>
    /\ img = <<>>
    /\ gray = <<>>
    /\ classes = <<>>
    /\ k = 0
    /\ results = <<>>
    /\ report = <<>>
    /\ printed = FALSE
    /\ saved = FALSE
    /\ MaxIdle

\* cloud_class = np.zeros_like(data_region)
ZerosLike ==
    /\ script = "A" /\ pc = "pixel"
    /\ mid' = 0
    /\ pc' = "dense"
    /\ UNCHANGED <<script, shape, img, gray, classes, k, results, report, printed, saved>>
    /\ UNCHANGED <<mvars, arg, ret>>

\* cloud_class[data_region >= DENSE_CLOUD] = 3
AssignDense ==
    /\ script = "A" /\ pc = "dense"
    /\ mid' = IF DenseMaskA(arg) THEN 3 ELSE mid
    /\ pc' = "medium"
    /\ UNCHANGED <<script, shape, img, gray, classes, k, results, report, printed, saved>>
    /\ UNCHANGED <<mvars, arg, ret>>

\* cloud_class[(data_region >= MEDIUM_CLOUD) & (data_region < DENSE_CLOUD)] = 2
AssignMedium ==
    /\ script = "A" /\ pc = "medium"
    /\ mid' = IF MediumMaskA(arg) THEN 2 ELSE mid
    /\ pc' = "light"
    /\ UNCHANGED <<script, shape, img, gray, classes, k, results, report, printed, saved>>
    /\ UNCHANGED <<mvars, arg, ret>>

\* cloud_class[(data_region >= LIGHT_CLOUD) & (data_region < MEDIUM_CLOUD)] = 1
AssignLight ==
    /\ script = "A" /\ pc = "light"
    /\ ret' = IF LightMaskA(arg) THEN 1 ELSE mid
    /\ pc' = "classified"
    /\ UNCHANGED <<script, shape, img, gray, classes, k, results, report, printed, saved>>
    /\ UNCHANGED <<mvars, arg, mid>>

\* high_cloud_mask and medium_cloud_mask of analyze_cloud_cover
MasksB ==
    /\ script = "B" /\ pc = "pixel"
    /\ ret' = [high_cloud_mask |-> HighCloudMask(arg, threshold_high),
               medium_cloud_mask |-> MediumCloudMask(arg, threshold_high, threshold_medium)]
    /\ pc' = "classified"
    /\ UNCHANGED <<script, shape, img, gray, classes, k, results, report, printed, saved>>
    /\ UNCHANGED <<mvars, arg, mid>>

ClassifyNext == ZerosLike \/ AssignDense \/ AssignMedium \/ AssignLight \/ MasksB

SpecClassify == ClassifyInit /\ [][ClassifyNext]_vars

-----------------------------------------------------------------------------
(* The crop rectangle of one lat/lon range, by either script.  arg is the  *)
(* range, inside the declared extent or not, in either order; ret is the   *)
(* corners and whether the array is sliced with them.                      *)

LatEdges == {-15, -5, 8, 20, 45, 55}

LonEdges == {40, 50, 72, 105, 115}

CropInit ==
    /\ script \in {"A", "B"}
    /\ pc = "range"
    /\ shape \in ImageShapes
    /\ arg \in [lat : LatEdges \X LatEdges, lon : LonEdges \X LonEdges]
    /\ mid = <<>>
    /\ ret = <<>>
    /\ img = <<>>
    /\ gray = <<>>
    /\ classes = <<>>
    /\ k = 0
    /\ results = <<>>
    /\ report = <<>>
    /\ printed = FALSE
    /\ saved = FALSE
    /\ MaxIdle

\* analyze_region up to region_data = data_region[y1:y2, x1:x2]
CropA ==
    /\ script = "A" /\ pc = "range"
    /\ \E r1 \in Rounding \X Rounding, r2 \in Rounding \X Rounding :
          ret' = [corners |-> CornersA(arg.lat, arg.lon, r1, r2), sliced |-> TRUE]
    /\ pc' = "cropped"
    /\ UNCHANGED <<script, shape, img, gray, classes, k, results, report, printed, saved>>
    /\ UNCHANGED <<mvars, arg, mid>>

\* the loop body of identify_rain_regions up to region_pixels = gray[y1:y2, x1:x2]
CropB ==
    /\ script = "B" /\ pc = "range"
    /\ \E r1 \in Rounding \X Rounding, r2 \in Rounding \X Rounding :
          LET c == CornersB(arg.lat, arg.lon, define_geographic_bounds(shape), r1, r2)
          IN  ret' = [corners |-> c, sliced |-> NonEmptyB(c)]
    /\ pc' = "cropped"
    /\ UNCHANGED <<script, shape, img, gray, classes, k, results, report, printed, saved>>
    /\ UNCHANGED <<mvars, arg, mid>>

CropNext == CropA \/ CropB

SpecCrop == CropInit /\ [][CropNext]_vars

-----------------------------------------------------------------------------
(* Round trips through the mapper of script B.  arg is a pixel of the data *)
(* area or a point strictly inside the declared extent; mid is its image   *)
(* under the first conversion, ret the image of mid under the second.      *)
(* The value int() is given may have been rounded either way.              *)

RoundTripShapes == {<<93, 14>>, <<87, 9>>}

DataPixels(s) == (0..(s[2] - 1)) \X (header_height..(s[1] - 1))

InnerPoints ==
    {[kind |-> "geo", lat |-> <<a, GeoDen>>, lon |-> <<o, GeoDen>>] :
        a \in (lat_min * GeoDen + 1)..(lat_max * GeoDen - 1),
        o \in (lon_min * GeoDen + 1)..(lon_max * GeoDen - 1)}

RoundTripInit ==
    /\ script = "B"
    /\ pc = "first"
    /\ shape \in RoundTripShapes
    /\ arg \in {[kind |-> "pixel", x |-> p[1], y |-> p[2]] : p \in DataPixels(shape)}
                 \cup InnerPoints
    /\ mid = <<>>
    /\ ret = <<>>
    /\ img = <<>>
    /\ gray = <<>>
    /\ classes = <<>>
    /\ k = 0
    /\ results = <<>>
    /\ report = <<>>
    /\ printed = FALSE
    /\ saved = FALSE
    /\ MaxIdle

PixelToCoordsFirst ==
    /\ pc = "first" /\ arg.kind = "pixel"
    /\ mid' = pixel_to_coords(arg.x, arg.y, define_geographic_bounds(shape))
    /\ pc' = "second"
    /\ UNCHANGED <<script, shape, img, gray, classes, k, results, report, printed, saved>>
    /\ UNCHANGED <<mvars, arg, ret>>

CoordsToPixelSecond ==
    /\ pc = "second" /\ arg.kind = "pixel"
    /\ \E r \in Rounding \X Rounding :
          ret' = coords_to_pixel(mid[1], mid[2], define_geographic_bounds(shape), r)
    /\ pc' = "back"
    /\ UNCHANGED <<script, shape, img, gray, classes, k, results, report, printed, saved>>
    /\ UNCHANGED <<mvars, arg, mid>>

CoordsToPixelFirst ==
    /\ pc = "first" /\ arg.kind = "geo"
    /\ \E r \in Rounding \X Rounding :
          mid' = coords_to_pixel(arg.lat, arg.lon, define_geographic_bounds(shape), r)
    /\ pc' = "second"
    /\ UNCHANGED <<script, shape, img, gray, classes, k, results, report, printed, saved>>
    /\ UNCHANGED <<mvars, arg, ret>>

PixelToCoordsSecond ==
    /\ pc = "second" /\ arg.kind = "geo"
    /\ ret' = pixel_to_coords(mid[1], mid[2], define_geographic_bounds(shape))
    /\ pc' = "back"
    /\ UNCHANGED <<script, shape, img, gray, classes, k, results, report, printed, saved>>
    /\ UNCHANGED <<mvars, arg, mid>>

RoundTripNext ==
    PixelToCoordsFirst \/ CoordsToPixelSecond \/ CoordsToPixelFirst \/ PixelToCoordsSecond

SpecRoundTrip == RoundTripInit /\ [][RoundTripNext]_vars

-----------------------------------------------------------------------------
(* The label of one non-empty crop as its pixels get brighter.  The        *)
(* percentages of a crop depend on how many of its pixels have each        *)
(* brightness, not on where they are: arg.pixels gives, for each           *)
(* brightness of CropLevels, the number of pixels of the crop that have    *)
(* it, and arg.raised tells whether a pixel has been raised since the crop *)
(* was drawn.  mid is the label of the crop as drawn, ret the result for   *)
(* the crop as it is now.  With at most 29 pixels in the crop the double   *)
(* arithmetic gives the threshold decisions of the exact fractions.        *)

CropLevels == {100, 140, 180, 255}

\* the pixels of the crop, <<brightness, index among those of this brightness>>
CropPixels(pixels) ==
    {p \in CropLevels \X (1..MaxPixels) : p[2] <= pixels[p[1]]}

CropSize(pixels) == Count(CropPixels(pixels))

Crops ==
    {pixels \in [CropLevels -> 0..MaxPixels] : CropSize(pixels) \in 1..MaxPixels}

\* high_prob, medium_prob, low_prob of a non-empty region_data, over total
PercentagesA(pixels) ==
    LET region_data == CropPixels(pixels)
        total == Count(region_data)
    IN  [high |-> 100 * Count({p \in region_data : DenseMaskA(Channels * p[1])}),
         medium |-> 100 * Count({p \in region_data : MediumMaskA(Channels * p[1])}),
         low |-> 100 * Count({p \in region_data : LightMaskA(Channels * p[1])}),
         den |-> total]

\* high_cloud_pct, medium_cloud_pct of a non-empty region_pixels, over size
PercentagesB(pixels) ==
    LET region_pixels == CropPixels(pixels)
        size == Count(region_pixels)
    IN  [high |-> 100 * Count({p \in region_pixels : DenseB(Channels * p[1])}),
         medium |-> 100 * Count({p \in region_pixels : MediumB(Channels * p[1])}),
         den |-> size]

BrightenInit ==
    /\ script \in {"A", "B"}
    /\ pc = "crop"
    /\ arg \in [pixels : Crops, raised : {FALSE}]
    /\ mid = <<>>
    /\ ret = <<>>
    /\ shape = <<0, 0>>
    /\ img = <<>>
    /\ gray = <<>>
    /\ classes = <<>>
    /\ k = 0
    /\ results = <<>>
    /\ report = <<>>
    /\ printed = FALSE
    /\ saved = FALSE
    /\ MaxIdle

\* rainfall_analysis.py: the percentages of the crop and the likelihood of
\* the region
LabelCropA ==
    /\ script = "A" /\ pc = "crop"
    /\ LET r == PercentagesA(arg.pixels)
           likelihood == LikelihoodA(r)
       IN  /\ ret' = [high |-> r.high, medium |-> r.medium, low |-> r.low,
                      den |-> r.den, likelihood |-> likelihood]
           /\ mid' = IF arg.raised THEN mid ELSE likelihood
    /\ pc' = "labelled"
    /\ UNCHANGED <<script, shape, img, gray, classes, k, results, report, printed, saved>>
    /\ UNCHANGED <<mvars, arg>>

\* rainfall_analysis_model_b.py: the percentages of the crop and the
\* rain_likelihood of the region
LabelCropB ==
    /\ script = "B" /\ pc = "crop"
    /\ LET r == PercentagesB(arg.pixels)
           rain_likelihood == LikelihoodB(r.high, r.medium, r.den)
       IN  /\ ret' = [high |-> r.high, medium |-> r.medium, den |-> r.den,
                      likelihood |-> rain_likelihood]
           /\ mid' = IF arg.raised THEN mid ELSE rain_likelihood
    /\ pc' = "labelled"
    /\ UNCHANGED <<script, shape, img, gray, classes, k, results, report, printed, saved>>
    /\ UNCHANGED <<mvars, arg>>

\* the same crop with one pixel brighter than it was, to be analysed again
Brighten ==
    /\ pc = "labelled"
    /\ \E a \in CropLevels, b \in CropLevels :
          /\ a < b
          /\ arg.pixels[a] > 0
          /\ arg' = [pixels |-> [arg.pixels EXCEPT ![a] = @ - 1, ![b] = @ + 1],
                     raised |-> TRUE]
    /\ ret' = <<>>
    /\ pc' = "crop"
    /\ UNCHANGED <<script, shape, img, gray, classes, k, results, report, printed, saved>>
    /\ UNCHANGED <<mvars, mid>>

BrightenNext == LabelCropA \/ LabelCropB \/ Brighten

SpecBrighten == BrightenInit /\ [][BrightenNext]_vars

-----------------------------------------------------------------------------
(* Properties of the maximum scan *)

\* C1: once the loop over my_list has ended, max_value is an element of the
\* list and no element of the list is greater: it is the true maximum, also
\* for lists of negative values only, with zeros, or of a single element.
C1_MaxIsTrueMaximum ==
    mpc \in {"print", "done"} =>
        /\ \E n \in 1..Len(my_list) : my_list[n] = max_value
        /\ \A n \in 1..Len(my_list) : my_list[n] <= max_value
        /\ mpc = "done" => output = <<max_value>>

\* an all-negative list of three elements has been scanned and printed
C1_Witness ==
    /\ mpc = "done"
    /\ my_list = <<-3, -1, -2>>
    /\ output = <<-1>>

-----------------------------------------------------------------------------
(* Properties of the cloud classifier *)

\* the tier the two masks of script B give a pixel
TierOfMasks(m) == IF m.high_cloud_mask THEN 3 ELSE IF m.medium_cloud_mask THEN 2 ELSE 0

TierB(v) ==
    TierOfMasks([high_cloud_mask |-> HighCloudMask(v, threshold_high),
                 medium_cloud_mask |-> MediumCloudMask(v, threshold_high, threshold_medium)])

\* C2: every brightness gets exactly one tier of 0..3: the tier masks are
\* pairwise disjoint, the tier is the one of the mask that holds (0, clear,
\* when none does), and a darker pixel never gets a higher tier.
C2_OneTierMonotonic ==
    pc = "classified" =>
        IF script = "A"
        THEN /\ ret \in 0..3
             /\ ~(DenseMaskA(arg) /\ MediumMaskA(arg))
             /\ ~(DenseMaskA(arg) /\ LightMaskA(arg))
             /\ ~(MediumMaskA(arg) /\ LightMaskA(arg))
             /\ (ret = 3) <=> DenseMaskA(arg)
             /\ (ret = 2) <=> MediumMaskA(arg)
             /\ (ret = 1) <=> LightMaskA(arg)
             /\ ret = cloud_class(arg)
             /\ \A u \in Brightness : u < arg => cloud_class(u) <= ret
        ELSE /\ ~(ret.high_cloud_mask /\ ret.medium_cloud_mask)
             /\ TierOfMasks(ret) \in 0..3
             /\ \A u \in Brightness : u < arg => TierB(u) <= TierOfMasks(ret)

\* script A has classified a pixel of brightness exactly DENSE_CLOUD as dense
C2_Witness ==
    /\ pc = "classified"
    /\ script = "A"
    /\ arg = Channels * DENSE_CLOUD
    /\ ret = 3

-----------------------------------------------------------------------------
(* Properties of the region aggregator and the report *)

Labels == {"HIGH", "MODERATE", "LOW", "UNLIKELY"}

\* the region the loop has just handled, once it has handled one
LastRegion == regions[k]

\* the pixels of gray the crop of LastRegion reads, as <<x, y>> of gray
LastCrop ==
    IF script = "A"
    THEN {<<p[1], p[2] + header_height>> :
            p \in Slice(CornersA(LastRegion.lat, LastRegion.lon, NoRounding, NoRounding))}
    ELSE LET c == CornersB(LastRegion.lat, LastRegion.lon,
                           define_geographic_bounds(shape), NoRounding, NoRounding)
         IN  IF NonEmptyB(c) THEN Slice(c) ELSE {}

LastResult == results[Len(results)]

InLoop == pc = "regions" /\ k >= 1

\* C3: the label of every result is the first match of the table: HIGH if
\* dense% > 30; else MODERATE if dense% > 15 or dense% + medium% > 40; else
\* LOW if the script's residual cutoff is exceeded (A: dense% + medium% +
\* low% > 30; B: dense% > 5 or medium% > 20); else UNLIKELY.
C3_DecisionTable ==
    \A n \in 1..Len(results) :
        LET r == results[n]
            High == r.high > 30 * r.den
            Moderate == r.high > 15 * r.den \/ r.high + r.medium > 40 * r.den
            Residual == IF script = "A"
                        THEN r.high + r.medium + r.low > 30 * r.den
                        ELSE r.high > 5 * r.den \/ r.medium > 20 * r.den
        IN  /\ r.likelihood \in Labels
            /\ (r.likelihood = "HIGH") <=> High
            /\ (r.likelihood = "MODERATE") <=> (~High /\ Moderate)
            /\ (r.likelihood = "LOW") <=> (~High /\ ~Moderate /\ Residual)
            /\ (r.likelihood = "UNLIKELY") <=> (~High /\ ~Moderate /\ ~Residual)

\* a run of script A whose results carry all four labels, one of them HIGH
\* with medium cloud as well, one MODERATE by the sum alone
C3_Witness ==
    /\ script = "A"
    /\ pc = "done"
    /\ \A l \in Labels : \E n \in 1..Len(results) : results[n].likelihood = l
    /\ \E n \in 1..Len(results) :
          /\ results[n].likelihood = "MODERATE"
          /\ results[n].high <= 15 * results[n].den

\* C4 (as claimed): a region whose crop is empty gets a result with zero
\* percentages, so every region the loop has handled has its result.
C4_DegenerateCropGivesZeros ==
    InLoop =>
        /\ Len(results) = k
        /\ LastCrop = {} =>
              /\ LastResult.region = LastRegion.region
              /\ LastResult.high = 0
              /\ LastResult.medium = 0

\* C5 (as claimed): consecutive rows of the report are in ascending rank,
\* and within a rank in descending dense%.
C5_ReportOrdered ==
    \A n \in 1..(Len(report) - 1) :
        LET a == report[n]
            b == report[n + 1]
        IN  \/ likelihood_order(a.likelihood) < likelihood_order(b.likelihood)
            \/ /\ likelihood_order(a.likelihood) = likelihood_order(b.likelihood)
               /\ a.high * b.den >= b.high * a.den

\* the pixels of the last crop that are in no cloud tier of the script
LastClear ==
    IF script = "A"
    THEN {p \in LastCrop : LET v == GrayAt(p[1], p[2])
                           IN  ~DenseMaskA(v) /\ ~MediumMaskA(v) /\ ~LightMaskA(v)}
    ELSE {p \in LastCrop : LET v == GrayAt(p[1], p[2]) IN ~DenseB(v) /\ ~MediumB(v)}

AboveDense(v) ==
    IF script = "A" THEN v > Channels * DENSE_CLOUD ELSE v > Channels * threshold_high

\* C8: on a 100 x 100 image every declared region has a non-empty crop, and
\* a region whose crop is all above the dense threshold gets dense% = 100,
\* medium% = 0 and the label HIGH.
C8_UniformDenseIsHigh ==
    (InLoop /\ shape = <<100, 100>>) =>
        /\ LastCrop # {}
        /\ Len(results) = k
        /\ LastResult.region = LastRegion.region
        /\ (\A p \in LastCrop : AboveDense(GrayAt(p[1], p[2]))) =>
              /\ LastResult.high = 100 * LastResult.den
              /\ LastResult.medium = 0
              /\ LastResult.likelihood = "HIGH"

\* script A, on a 100 x 100 image whose upper half is clear, has handled a
\* region whose crop is all above the dense threshold
C8_Witness ==
    /\ InLoop
    /\ script = "A"
    /\ shape = <<100, 100>>
    /\ gray[1] < Channels * LIGHT_CLOUD
    /\ gray[2] < Channels * LIGHT_CLOUD
    /\ \A p \in LastCrop : AboveDense(GrayAt(p[1], p[2]))
    /\ LastResult.likelihood = "HIGH"

\* C9: a failed load ends the run in the error state, with no step after
\* it, no report printed and no image written; nothing is printed or
\* written before the image is loaded; the image is written only after the
\* report has been printed.
C9_LoadFailureIsFatal ==
    /\ pc = "error" => (~printed /\ ~saved /\ results = <<>> /\ ~ENABLED Next)
    /\ pc \in {"start", "error"} <=> gray = <<>>
    /\ gray = <<>> => (~printed /\ ~saved)
    /\ saved => printed

\* the load has failed
C9_Witness ==
    /\ pc = "error"
    /\ gray = <<>>
    /\ ~printed
    /\ ~saved

-----------------------------------------------------------------------------
(* Properties of the crop rectangle *)

\* C10: whatever the lat/lon range, the corners an array is sliced with lie
\* within 0..width and first data row..last row + 1, and every pixel of the
\* slice is a pixel of the data area: a column of the image and a row at or
\* below the header band.
C10_CropInsideDataArea ==
    (pc = "cropped" /\ ret.sliced) =>
        LET c == ret.corners
            first == IF script = "A" THEN 0 ELSE header_height
            last == IF script = "A" THEN height ELSE shape[1]
            offset == IF script = "A" THEN header_height ELSE 0
        IN  /\ 0 <= c[1] /\ c[1] <= shape[2]
            /\ 0 <= c[3] /\ c[3] <= shape[2]
            /\ first <= c[2] /\ c[2] <= last
            /\ first <= c[4] /\ c[4] <= last
            /\ \A p \in Slice(c) :
                  /\ 0 <= p[1] /\ p[1] < shape[2]
                  /\ header_height <= p[2] + offset
                  /\ p[2] + offset < shape[1]

\* script B has sliced a 100 x 100 image for a range that reaches north of
\* the declared extent: the crop starts at the first data row
C10_Witness ==
    /\ pc = "cropped"
    /\ script = "B"
    /\ shape = <<100, 100>>
    /\ arg.lat = <<20, 55>>
    /\ arg.lon = <<40, 72>>
    /\ ret.sliced
    /\ ret.corners[2] = header_height
    /\ ret.corners[1] = 0

-----------------------------------------------------------------------------
(* Properties of the geographic mapper *)

Abs(n) == IF n >= 0 THEN n ELSE 0 - n

\* |a - b| as a fraction <<n, d>>, for fractions a and b
Gap(a, b) == <<Abs(a[1] * b[2] - b[1] * a[2]), a[2] * b[2]>>

\* the fraction g is at most one pixel's worth of degrees, 1 / ppd
WithinOnePixel(g, ppd) == g[1] * ppd[1] <= g[2] * ppd[2]

\* the fraction g is exactly one pixel's worth of degrees
ExactlyOnePixel(g, ppd) == g[1] * ppd[1] = g[2] * ppd[2]

PixelBack == pc = "back" /\ arg.kind = "pixel"

GeoBack == pc = "back" /\ arg.kind = "geo"

-----------------------------------------------------------------------------
(* Properties of the likelihood under brightening *)

\* C11: when pixels of a crop have been raised in brightness and none has
\* been darkened, the label of the crop is at least as severe as the label
\* of the crop as drawn (UNLIKELY < LOW < MODERATE < HIGH), by the decision
\* table of either script.
C11_BrighterNeverLessSevere ==
    (pc = "labelled" /\ arg.raised) =>
        likelihood_order(ret.likelihood) <= likelihood_order(mid)

====
